---------------------------- MODULE Spec2Model ----------------------------
(***************************************************************************)
(* The composite device tree of linux-driver-management (src/lib/device.c) *)
(* as a state machine: device construction, the reference-counted child    *)
(* table of every device, the add/remove/lookup operations on it and the   *)
(* recursive type and attribute queries.                                   *)
(*                                                                         *)
(* Devices are named 1..MaxNodes in order of construction; a name stands   *)
(* for one allocation and is never reused.  Calls take live devices as     *)
(* arguments: a pointer to a freed device is no valid argument.            *)
(*                                                                         *)
(* Four specifications share the actions:                                  *)
(*   Spec         the tree as its owner uses it, add_child being called    *)
(*                with a child constructed with that parent, and a         *)
(*                top-level holder keeping or dropping devices;            *)
(*   SpecAnyArgs  the calls with arbitrary live devices as arguments;      *)
(*   SpecQuery    trees of devices with type and attribute bits, for       *)
(*                has_type and has_attribute;                              *)
(*   SpecConstruct  the constructor on every udev record and hwdb list of  *)
(*                the bounded sets, for the variant, name and vendor.      *)
(***************************************************************************)
EXTENDS Integers, FiniteSets, Sequences, TLC

\* Bounds of the model
MaxNodes == 3
MaxPath == 2
MaxDevType == 3
MaxAttr == 1
MaxProductId == 17
MaxProps == 2
MaxConstructed == 1

\* The null pointer
NULL == 0

Nodes == 1..MaxNodes
Paths == 1..MaxPath
DevTypes == 0..MaxDevType
Attrs == 0..MaxAttr

VARIABLES
    alive,        \* per device: "unborn", "live" or "disposed"
    parent,       \* self->tree.parent
    sysfs_path,   \* self->os.sysfs_path
    devtype,      \* self->os.devtype
    attributes,   \* self->os.attributes
    kids,         \* self->tree.kids: a set of [key, value] entries
    ref_count,    \* GObject reference count
    floating,     \* GObject floating flag (G_TYPE_INITIALLY_UNOWNED)
    held,         \* references owned by the top-level holder of the device
    special_type, \* the GType the device was allocated as
    product_id,   \* self->id.product_id
    name,         \* self->id.name
    vendor,       \* self->id.vendor
    modalias,     \* self->os.modalias
    hwdb_info,    \* self->os.hwdb_info: a set of [key, value] entries
    misuse,       \* some add_child call broke the documented precondition
    crashed,      \* the process died of an invalid memory access
    last,         \* the last call, with what it found
    freed,        \* the devices the last call disposed
    given         \* the udev device and list the last constructor call got

vars == <<alive, parent, sysfs_path, devtype, attributes, kids, ref_count,
          floating, held, special_type, product_id, name, vendor, modalias,
          hwdb_info, misuse, crashed, last, freed, given>>

-----------------------------------------------------------------------------
\* C's bitwise and on non-negative integers
RECURSIVE BitAnd(_, _)
BitAnd(a, b) ==
    IF a = 0 \/ b = 0 THEN 0
    ELSE (a % 2) * (b % 2) + 2 * BitAnd(a \div 2, b \div 2)

\* A C string is the sequence of its characters with the terminating NUL;
\* the null char pointer points to no characters at all
NUL == "\\0"

NullStr == <<>>

\* g_strdup: a copy with the same content, NULL for NULL
g_strdup(str) == str

\* g_str_equal: strcmp(v1, v2) == 0, on two strings
g_str_equal(v1, v2) == v1 = v2

HexDigits == <<"0", "1", "2", "3", "4", "5", "6", "7",
               "8", "9", "a", "b", "c", "d", "e", "f">>

\* printf's %x of an unsigned int: lowercase digits, most significant
\* first, as many as the value needs
RECURSIVE FormatHex(_)
FormatHex(u) ==
    IF u < 16 THEN <<HexDigits[u + 1]>>
    ELSE FormatHex(u \div 16) \o <<HexDigits[(u % 16) + 1]>>

\* %x of a gint: the 32 bits are read as an unsigned int, so a negative
\* value v prints as v + 2^32, its last digit apart from the leading ones
FormatHexInt(v) ==
    IF v >= 0 THEN FormatHex(v)
    ELSE FormatHex(((v - (v % 16)) \div 16) + 2 ^ 28)
             \o <<HexDigits[(v % 16) + 1]>>

\* g_strdup_printf("Device %x", id)
g_strdup_printf_Device(id) ==
    <<"D", "e", "v", "i", "c", "e", " ">> \o FormatHexInt(id) \o <<NUL>>

\* GHashTable keyed by string content (g_str_hash, g_str_equal)
g_hash_table_lookup(t, k) ==
    IF \E e \in t : e.key = k
    THEN (CHOOSE e \in t : e.key = k).value
    ELSE NULL

\* An insert that keeps the entry the key already had
hash_table_insert_keeps_old(t, k, v) ==
    t \cup {[key |-> k, value |-> v]}

g_hash_table_replace(t, k, v) ==
    {e \in t : e.key # k} \cup {[key |-> k, value |-> v]}

\* g_hash_table_remove_all in the place of g_hash_table_remove
hash_table_remove_all(t, k) ==
    {}

g_hash_table_remove(t, k) ==
    {e \in t : e.key # k}

g_hash_table_get_values(t) ==
    {e.value : e \in t}

\* g_hash_table_lookup in a table of strings: the value, or the null pointer
hwdb_lookup(t, k) ==
    IF \E e \in t : e.key = k
    THEN (CHOOSE e \in t : e.key = k).value
    ELSE NullStr

\* g_hash_table_insert: the value is stored under the key, in the place of
\* the value the key had
g_hash_table_insert(t, k, v) ==
    {e \in t : e.key # k} \cup {[key |-> k, value |-> v]}

RECURSIVE SetToSeq(_)
SetToSeq(S) ==
    IF S = {} THEN <<>>
    ELSE LET x == CHOOSE y \in S : TRUE
         IN  <<x>> \o SetToSeq(S \ {x})

\* The values of a table, one per entry, in some order
ValueSeq(t) ==
    LET es == SetToSeq(t)
    IN  [i \in 1..Len(es) |-> es[i].value]

-----------------------------------------------------------------------------
\* The heap: reference counts, liveness, and the tables and strings the
\* devices own
Heap == [ref |-> ref_count, al |-> alive, kd |-> kids, sp |-> sysfs_path,
         hw |-> hwdb_info, ma |-> modalias, nm |-> name, vn |-> vendor]

\* ldm_device_dispose: the tables and the strings are dropped
ldm_device_dispose(h, o) ==
    [h EXCEPT !.ref[o] = 0, !.al[o] = "disposed", !.kd[o] = {}, !.hw[o] = {},
              !.sp[o] = NULL, !.ma[o] = NullStr, !.nm[o] = NullStr,
              !.vn[o] = NullStr]

\* g_object_unref on devices whose child table was made without the value
\* destroy function: a disposed device drops its table, not its children
RECURSIVE g_object_unref_keeps_children(_, _)
g_object_unref_keeps_children(h, todo) ==
    IF todo = <<>> THEN h
    ELSE LET o == Head(todo)
         IN  IF h.ref[o] > 1
             THEN g_object_unref_keeps_children([h EXCEPT !.ref[o] = @ - 1],
                                                Tail(todo))
             ELSE g_object_unref_keeps_children(ldm_device_dispose(h, o),
                                                Tail(todo))

\* g_object_unref of every device of todo, in order; a count that reaches
\* zero disposes the device, which unrefs the values of its child table
RECURSIVE g_object_unref(_, _)
g_object_unref(h, todo) ==
    IF todo = <<>> THEN h
    ELSE LET o == Head(todo)
         IN  IF h.ref[o] > 1
             THEN g_object_unref([h EXCEPT !.ref[o] = @ - 1], Tail(todo))
             ELSE g_object_unref(ldm_device_dispose(h, o),
                                 Tail(todo) \o ValueSeq(h.kd[o]))

\* g_object_ref_sink: a floating reference is taken over, otherwise one more
g_object_ref_sink(h, o, fl) ==
    IF fl[o] THEN h ELSE [h EXCEPT !.ref[o] = @ + 1]


-----------------------------------------------------------------------------
Init ==
    /\ alive = [n \in Nodes |-> "unborn"]
    /\ parent = [n \in Nodes |-> NULL]
    /\ sysfs_path = [n \in Nodes |-> NULL]
    /\ devtype = [n \in Nodes |-> 0]
    /\ attributes = [n \in Nodes |-> 0]
    /\ kids = [n \in Nodes |-> {}]
    /\ ref_count = [n \in Nodes |-> 0]
    /\ floating = [n \in Nodes |-> FALSE]
    /\ held = [n \in Nodes |-> FALSE]
    /\ special_type = [n \in Nodes |-> "G_TYPE_INVALID"]
    /\ product_id = [n \in Nodes |-> 0]
    /\ name = [n \in Nodes |-> NullStr]
    /\ vendor = [n \in Nodes |-> NullStr]
    /\ modalias = [n \in Nodes |-> NullStr]
    /\ hwdb_info = [n \in Nodes |-> {}]
    /\ misuse = FALSE
    /\ crashed = FALSE
    /\ last = [op |-> "none", self |-> NULL, child |-> NULL, path |-> NULL,
               old |-> NULL]
    /\ freed = {}
    /\ given = [device |-> <<>>, properties |-> <<>>]

Live == {n \in Nodes : alive[n] = "live"}

\* The heap after a call on constructed devices is stored back into the
\* variables
Store(h) ==
    /\ ref_count' = h.ref
    /\ alive' = h.al
    /\ kids' = h.kd
    /\ sysfs_path' = h.sp
    /\ hwdb_info' = h.hw
    /\ modalias' = h.ma
    /\ name' = h.nm
    /\ vendor' = h.vn
    /\ freed' = {n \in Nodes : alive[n] = "live" /\ h.al[n] = "disposed"}
    /\ given' = [device |-> <<>>, properties |-> <<>>]
    /\ UNCHANGED <<special_type, product_id>>

\* A device freed while a call on its own child table is running is a
\* use-after-free in that call: the process goes on or dies
UseAfterFree(h, self) ==
    crashed' \in (IF h.al[self] = "live" THEN {FALSE} ELSE {FALSE, TRUE})

\* The subsystem names the constructor knows
SUBSYSTEM_USB == <<"u", "s", "b", NUL>>

SUBSYSTEM_PCI == <<"p", "c", "i", NUL>>

SUBSYSTEM_DMI == <<"d", "m", "i", NUL>>

SUBSYSTEM_HID == <<"h", "i", "d", NUL>>

SUBSYSTEM_BLUETOOTH == <<"b", "l", "u", "e", "t", "o", "o", "t", "h", NUL>>

SUBSYSTEM_IEEE80211 == <<"i", "e", "e", "e", "8", "0", "2", "1", "1", NUL>>

\* The GType the constructor picks for a subsystem
special_type_of(subsystem) ==
    IF g_str_equal(subsystem, SUBSYSTEM_USB) THEN "LDM_TYPE_USB_DEVICE"
    ELSE IF g_str_equal(subsystem, SUBSYSTEM_PCI) THEN "LDM_TYPE_PCI_DEVICE"
    ELSE IF g_str_equal(subsystem, SUBSYSTEM_DMI) THEN "LDM_TYPE_DMI_DEVICE"
    ELSE IF g_str_equal(subsystem, SUBSYSTEM_HID) THEN "LDM_TYPE_HID_DEVICE"
    ELSE IF g_str_equal(subsystem, SUBSYSTEM_BLUETOOTH)
         THEN "LDM_TYPE_BLUETOOTH_DEVICE"
    ELSE IF g_str_equal(subsystem, SUBSYSTEM_IEEE80211)
         THEN "LDM_TYPE_WIFI_DEVICE"
    ELSE "LDM_TYPE_DEVICE"

\* The hardware data of the list, duplicated into the private table
RECURSIVE hwdb_duplicate(_, _)
hwdb_duplicate(t, properties) ==
    IF properties = <<>> THEN t
    ELSE LET entry == Head(properties)
         IN  hwdb_duplicate(g_hash_table_insert(t, g_strdup(entry.name),
                                                g_strdup(entry.value)),
                            Tail(properties))

\* The vendor lookups in the other order: the device's own string first
hwdb_vendor_device_first(info) ==
    LET first == hwdb_lookup(info, "ID_VENDOR")
        lookup == IF first = NullStr
                  THEN hwdb_lookup(info, "ID_VENDOR_FROM_DATABASE")
                  ELSE first
    IN  IF lookup # NullStr THEN g_strdup(lookup) ELSE NullStr

\* The vendor from the hwdb information: the database's, else the device's
hwdb_vendor(info) ==
    LET first == hwdb_lookup(info, "ID_VENDOR_FROM_DATABASE")
        lookup == IF first = NullStr THEN hwdb_lookup(info, "ID_VENDOR")
                  ELSE first
    IN  IF lookup # NullStr THEN g_strdup(lookup) ELSE NullStr

\* The name lookups in the other order: the device's own string first
hwdb_name_device_first(info) ==
    LET first == hwdb_lookup(info, "ID_MODEL")
        lookup == IF first = NullStr
                  THEN hwdb_lookup(info, "ID_MODEL_FROM_DATABASE")
                  ELSE first
    IN  IF lookup # NullStr THEN g_strdup(lookup) ELSE NullStr

\* The name from the hwdb information: the database's, else the device's
hwdb_name(info) ==
    LET first == hwdb_lookup(info, "ID_MODEL_FROM_DATABASE")
        lookup == IF first = NullStr THEN hwdb_lookup(info, "ID_MODEL")
                  ELSE first
    IN  IF lookup # NullStr THEN g_strdup(lookup) ELSE NullStr

\* What g_object_new leaves in the fields no initializer has written
ZeroedPrivate == [devtype |-> 0, attributes |-> 0, product_id |-> 0]

\* ldm_pci_device_init_private and its siblings for USB, DMI and Bluetooth:
\* the ids and the bits are read from the udev device
variant_init_private(device) ==
    [devtype |-> device.devtype, attributes |-> device.attributes,
     product_id |-> device.product_id]

\* The initializer the constructor runs for a GType, if it runs one
init_private(st, device) ==
    IF st = "LDM_TYPE_PCI_DEVICE" THEN variant_init_private(device)
    ELSE IF st = "LDM_TYPE_USB_DEVICE" THEN variant_init_private(device)
    ELSE IF st = "LDM_TYPE_DMI_DEVICE" THEN variant_init_private(device)
    ELSE IF st = "LDM_TYPE_BLUETOOTH_DEVICE" THEN variant_init_private(device)
    ELSE ZeroedPrivate

\* The fallback name, for a device that got none so far
fallback_name(nm, id) ==
    IF nm = NullStr THEN g_strdup_printf_Device(id) ELSE nm

\* ldm_device_new_from_udev: the GType by subsystem, g_object_new with the
\* construct-only parent property, path and modalias of the udev device,
\* vendor and name from the hwdb list if there is one, the initializer of
\* the variant, and the fallback name.  An absent subsystem is a null
\* pointer given to strcmp: the process dies there, or the comparisons find
\* no equal name.
ldm_device_new_from_udev(par, device, properties) ==
    /\ ~crashed
    /\ par \in Live \cup {NULL}
    /\ \E n \in Nodes :
        /\ alive[n] = "unborn"
        /\ \A m \in Nodes : m < n => alive[m] # "unborn"
        /\ \/ /\ device.subsystem = NullStr
              /\ crashed' = TRUE
              /\ last' = [op |-> "new", self |-> NULL, child |-> NULL,
                          path |-> device.syspath, old |-> NULL]
              /\ UNCHANGED <<alive, parent, sysfs_path, devtype, attributes,
                             kids, ref_count, floating, special_type,
                             product_id, name, vendor, modalias, hwdb_info>>
           \/ /\ LET st == special_type_of(device.subsystem)
                     info == IF properties = <<>> THEN {}
                             ELSE hwdb_duplicate({}, properties)
                     vn == IF properties = <<>> THEN NullStr
                           ELSE hwdb_vendor(info)
                     nm == IF properties = <<>> THEN NullStr
                           ELSE hwdb_name(info)
                     priv == init_private(st, device)
                 IN  /\ special_type' = [special_type EXCEPT ![n] = st]
                     /\ hwdb_info' = [hwdb_info EXCEPT ![n] = info]
                     /\ vendor' = [vendor EXCEPT ![n] = vn]
                     /\ product_id' = [product_id EXCEPT ![n] = priv.product_id]
                     /\ devtype' = [devtype EXCEPT ![n] = priv.devtype]
                     /\ attributes' = [attributes EXCEPT ![n] = priv.attributes]
                     /\ name' = [name EXCEPT
                                    ![n] = fallback_name(nm, priv.product_id)]
              /\ alive' = [alive EXCEPT ![n] = "live"]
              /\ parent' = [parent EXCEPT ![n] = par]
              /\ sysfs_path' = [sysfs_path EXCEPT ![n] = device.syspath]
              /\ modalias' = [modalias EXCEPT ![n] = g_strdup(device.modalias)]
              /\ kids' = [kids EXCEPT ![n] = {}]
              /\ ref_count' = [ref_count EXCEPT ![n] = 1]
              /\ floating' = [floating EXCEPT ![n] = TRUE]
              /\ last' = [op |-> "new", self |-> n, child |-> NULL,
                          path |-> device.syspath, old |-> NULL]
              /\ UNCHANGED crashed
    /\ given' = [device |-> device, properties |-> properties]
    /\ freed' = {}
    /\ UNCHANGED <<held, misuse>>

\* ldm_device_get_path
ldm_device_get_path(self) == sysfs_path[self]

\* ldm_device_get_name
ldm_device_get_name(self) == name[self]

\* ldm_device_get_vendor
ldm_device_get_vendor(self) == vendor[self]

\* ldm_device_get_product_id
ldm_device_get_product_id(self) == product_id[self]

\* ldm_device_get_modalias
ldm_device_get_modalias(self) == modalias[self]

\* ldm_device_get_parent
ldm_device_get_parent(self) == parent[self]

\* ldm_device_get_child_by_path
ldm_device_get_child_by_path(self, path) ==
    g_hash_table_lookup(kids[self], path)

\* ldm_device_get_children
ldm_device_get_children(self) == g_hash_table_get_values(kids[self])

\* add_child that takes the key from the device instead of from the child
add_child_keyed_by_self(self, child) ==
    /\ ~crashed
    /\ self \in Live
    /\ child \in Live
    /\ LET id == ldm_device_get_path(self)
           old == g_hash_table_lookup(kids[self], id)
           h1 == g_object_ref_sink(Heap, child, floating)
           h2 == [h1 EXCEPT !.kd[self] = g_hash_table_replace(@, id, child)]
           h3 == IF old = NULL THEN h2 ELSE g_object_unref(h2, <<old>>)
       IN  /\ Store(h3)
           /\ UseAfterFree(h3, self)
           /\ last' = [op |-> "add_child", self |-> self, child |-> child,
                       path |-> id, old |-> old]
    /\ floating' = [floating EXCEPT ![child] = FALSE]
    /\ misuse' = (misuse \/ parent[child] # self)
    /\ UNCHANGED <<parent, devtype, attributes, held>>

\* add_child on a table made without a value destroy function: the value
\* the key held before is not unreffed
add_child_leaks_old(self, child) ==
    /\ ~crashed
    /\ self \in Live
    /\ child \in Live
    /\ LET id == ldm_device_get_path(child)
           old == g_hash_table_lookup(kids[self], id)
           h1 == g_object_ref_sink(Heap, child, floating)
           h2 == [h1 EXCEPT !.kd[self] = g_hash_table_replace(@, id, child)]
       IN  /\ Store(h2)
           /\ UseAfterFree(h2, self)
           /\ last' = [op |-> "add_child", self |-> self, child |-> child,
                       path |-> id, old |-> old]
    /\ floating' = [floating EXCEPT ![child] = FALSE]
    /\ misuse' = (misuse \/ parent[child] # self)
    /\ UNCHANGED <<parent, devtype, attributes, held>>

\* add_child that also enters the child in the table of the device's own
\* parent, so that a composite device lists the children of its parts
add_child_also_in_parent(self, child) ==
    /\ ~crashed
    /\ self \in Live
    /\ child \in Live
    /\ LET id == ldm_device_get_path(child)
           old == g_hash_table_lookup(kids[self], id)
           up == parent[self]
           h1 == g_object_ref_sink(Heap, child, floating)
           h2 == [h1 EXCEPT !.kd[self] = g_hash_table_replace(@, id, child)]
           h3 == IF old = NULL THEN h2 ELSE g_object_unref(h2, <<old>>)
           h4 == IF up \in Live /\ g_hash_table_lookup(kids[up], id) = NULL
                 THEN [h3 EXCEPT !.kd[up] = g_hash_table_replace(@, id, child),
                                 !.ref[child] = @ + 1]
                 ELSE h3
       IN  /\ Store(h4)
           /\ UseAfterFree(h4, self)
           /\ last' = [op |-> "add_child", self |-> self, child |-> child,
                       path |-> id, old |-> old]
    /\ floating' = [floating EXCEPT ![child] = FALSE]
    /\ misuse' = (misuse \/ parent[child] # self)
    /\ UNCHANGED <<parent, devtype, attributes, held>>

\* add_child that stores into the table of the child instead of the table
\* of the device it is called on
add_child_into_child(self, child) ==
    /\ ~crashed
    /\ self \in Live
    /\ child \in Live
    /\ LET id == ldm_device_get_path(child)
           old == g_hash_table_lookup(kids[child], id)
           h1 == g_object_ref_sink(Heap, child, floating)
           h2 == [h1 EXCEPT !.kd[child] = g_hash_table_replace(@, id, child)]
           h3 == IF old = NULL THEN h2 ELSE g_object_unref(h2, <<old>>)
       IN  /\ Store(h3)
           /\ UseAfterFree(h3, self)
           /\ last' = [op |-> "add_child", self |-> self, child |-> child,
                       path |-> id, old |-> old]
    /\ floating' = [floating EXCEPT ![child] = FALSE]
    /\ misuse' = (misuse \/ parent[child] # self)
    /\ UNCHANGED <<parent, devtype, attributes, held>>

\* add_child that sinks a floating child and takes no reference on a child
\* that is owned already
add_child_takes_no_reference(self, child) ==
    /\ ~crashed
    /\ self \in Live
    /\ child \in Live
    /\ LET id == ldm_device_get_path(child)
           old == g_hash_table_lookup(kids[self], id)
           h2 == [Heap EXCEPT !.kd[self] = g_hash_table_replace(@, id, child)]
           h3 == IF old = NULL THEN h2 ELSE g_object_unref(h2, <<old>>)
       IN  /\ Store(h3)
           /\ UseAfterFree(h3, self)
           /\ last' = [op |-> "add_child", self |-> self, child |-> child,
                       path |-> id, old |-> old]
    /\ floating' = [floating EXCEPT ![child] = FALSE]
    /\ misuse' = (misuse \/ parent[child] # self)
    /\ UNCHANGED <<parent, devtype, attributes, held>>

\* ldm_device_add_child: the child is ref-sunk, then stored under its own
\* path; the table unrefs the value it held under that key
ldm_device_add_child(self, child) ==
    /\ ~crashed
    /\ self \in Live
    /\ child \in Live
    /\ LET id == ldm_device_get_path(child)
           old == g_hash_table_lookup(kids[self], id)
           h1 == g_object_ref_sink(Heap, child, floating)
           h2 == [h1 EXCEPT !.kd[self] = g_hash_table_replace(@, id, child)]
           h3 == IF old = NULL THEN h2 ELSE g_object_unref(h2, <<old>>)
       IN  /\ Store(h3)
           /\ UseAfterFree(h3, self)
           /\ last' = [op |-> "add_child", self |-> self, child |-> child,
                       path |-> id, old |-> old]
    /\ floating' = [floating EXCEPT ![child] = FALSE]
    /\ misuse' = (misuse \/ parent[child] # self)
    /\ UNCHANGED <<parent, devtype, attributes, held>>

\* remove_child_by_path as its comment words it: the parent link of the
\* removed child is unset
RemoveByPathUnsetsParent(self, path, op, child) ==
    /\ LET old == g_hash_table_lookup(kids[self], path)
           h1 == [Heap EXCEPT !.kd[self] = g_hash_table_remove(@, path)]
           h2 == IF old = NULL THEN h1 ELSE g_object_unref(h1, <<old>>)
       IN  /\ Store(h2)
           /\ UseAfterFree(h2, self)
           /\ parent' = IF old = NULL THEN parent
                        ELSE [parent EXCEPT ![old] = NULL]
           /\ last' = [op |-> op, self |-> self, child |-> child,
                       path |-> path, old |-> old]
    /\ UNCHANGED <<devtype, attributes, floating, held, misuse>>

\* remove_child_by_path that unrefs what the lookup returned without looking
\* at it: on a miss g_object_unref(NULL) fails its check
RemoveByPathUnrefsMiss(self, path, op, child) ==
    /\ LET old == g_hash_table_lookup(kids[self], path)
           h1 == [Heap EXCEPT !.kd[self] = g_hash_table_remove(@, path)]
           h2 == IF old = NULL THEN h1 ELSE g_object_unref(h1, <<old>>)
       IN  /\ Store(h2)
           /\ crashed' = (old = NULL)
           /\ last' = [op |-> op, self |-> self, child |-> child,
                       path |-> path, old |-> old]
    /\ UNCHANGED <<parent, devtype, attributes, floating, held, misuse>>

\* The body of ldm_device_remove_child_by_path, for the call named op
RemoveByPath(self, path, op, child) ==
    /\ LET old == g_hash_table_lookup(kids[self], path)
           h1 == [Heap EXCEPT !.kd[self] = g_hash_table_remove(@, path)]
           h2 == IF old = NULL THEN h1 ELSE g_object_unref(h1, <<old>>)
       IN  /\ Store(h2)
           /\ UseAfterFree(h2, self)
           /\ last' = [op |-> op, self |-> self, child |-> child,
                       path |-> path, old |-> old]
    /\ UNCHANGED <<parent, devtype, attributes, floating, held, misuse>>

\* ldm_device_remove_child_by_path
ldm_device_remove_child_by_path(self, path) ==
    /\ ~crashed
    /\ self \in Live
    /\ RemoveByPath(self, path, "remove_child_by_path", NULL)

\* remove_child that removes the entry only if it holds the child it was
\* given
remove_child_checks_identity(self, child) ==
    /\ ~crashed
    /\ self \in Live
    /\ child \in Live
    /\ IF ldm_device_get_child_by_path(self, ldm_device_get_path(child)) = child
       THEN RemoveByPath(self, ldm_device_get_path(child), "remove_child", child)
       ELSE /\ Store(Heap)
            /\ last' = [op |-> "remove_child", self |-> self, child |-> child,
                        path |-> ldm_device_get_path(child), old |-> NULL]
            /\ UNCHANGED <<parent, devtype, attributes, floating, held,
                           misuse, crashed>>

\* ldm_device_remove_child: the wrapper that passes the path of the child
ldm_device_remove_child(self, child) ==
    /\ ~crashed
    /\ self \in Live
    /\ child \in Live
    /\ RemoveByPath(self, ldm_device_get_path(child), "remove_child", child)

\* The top-level holder of a device takes its reference (g_object_ref_sink)
holder_ref_sink(n) ==
    /\ ~crashed
    /\ n \in Live
    /\ ~held[n]
    /\ Store(g_object_ref_sink(Heap, n, floating))
    /\ floating' = [floating EXCEPT ![n] = FALSE]
    /\ held' = [held EXCEPT ![n] = TRUE]
    /\ last' = [op |-> "ref_sink", self |-> n, child |-> NULL, path |-> NULL,
                old |-> NULL]
    /\ UNCHANGED <<parent, devtype, attributes, misuse, crashed>>

\* ... and drops it (g_object_unref, the autoptr cleanup of LdmDevice)
holder_unref(n) ==
    /\ ~crashed
    /\ n \in Live
    /\ held[n]
    /\ Store(g_object_unref(Heap, <<n>>))
    /\ held' = [held EXCEPT ![n] = FALSE]
    /\ last' = [op |-> "unref", self |-> n, child |-> NULL, path |-> NULL,
                old |-> NULL]
    /\ UNCHANGED <<parent, devtype, attributes, floating, misuse, crashed>>

\* ldm_device_get_device_type
ldm_device_get_device_type(self) == devtype[self]

\* ldm_device_get_attributes
ldm_device_get_attributes(self) == attributes[self]

\* has_type that looks at the device and its children, not further down
has_type_one_level(self, mask) ==
    \/ BitAnd(devtype[self], mask) = mask
    \/ \E value \in g_hash_table_get_values(kids[self]) :
           BitAnd(devtype[value], mask) = mask

\* has_type that asks for some bit of the mask instead of all of them
RECURSIVE has_type_any_bit(_, _)
has_type_any_bit(self, mask) ==
    IF BitAnd(devtype[self], mask) # 0
    THEN TRUE
    ELSE \E value \in g_hash_table_get_values(kids[self]) :
             has_type_any_bit(value, mask)

\* ldm_device_has_type: the device itself, then each child in turn
RECURSIVE ldm_device_has_type(_, _)
ldm_device_has_type(self, mask) ==
    IF BitAnd(devtype[self], mask) = mask
    THEN TRUE
    ELSE \E value \in g_hash_table_get_values(kids[self]) :
             ldm_device_has_type(value, mask)

\* ldm_device_has_attribute: the device itself by its attributes, then each
\* child in turn through ldm_device_has_type
ldm_device_has_attribute(self, mask) ==
    IF BitAnd(attributes[self], mask) = mask
    THEN TRUE
    ELSE \E value \in g_hash_table_get_values(kids[self]) :
             ldm_device_has_type(value, mask)

-----------------------------------------------------------------------------
\* The udev device of a subsystem the constructor does not know
GenericDevice(path) ==
    [devtype |-> 0, attributes |-> 0, product_id |-> 0, modalias |-> NullStr,
     subsystem |-> <<"n", "o", "n", "s", "e", "n", "s", "e", NUL>>,
     syspath |-> path]

\* A PCI device, with the bits its initializer finds
PciDevice(path, dt, at) ==
    [devtype |-> dt, attributes |-> at, product_id |-> 0, modalias |-> NullStr,
     subsystem |-> SUBSYSTEM_PCI, syspath |-> path]

\* The udev devices and hwdb lists the constructor is tried on
Subsystems ==
    {SUBSYSTEM_USB, SUBSYSTEM_PCI, SUBSYSTEM_DMI, SUBSYSTEM_HID,
     SUBSYSTEM_BLUETOOTH, SUBSYSTEM_IEEE80211, GenericDevice(1).subsystem,
     NullStr}

ProductIds == 0..MaxProductId

UdevDevices ==
    [devtype : DevTypes, attributes : Attrs, product_id : ProductIds,
     modalias : {NullStr, <<"m", NUL>>}, subsystem : Subsystems,
     syspath : Paths]

HwdbKeys ==
    {"ID_VENDOR_FROM_DATABASE", "ID_VENDOR", "ID_MODEL_FROM_DATABASE",
     "ID_MODEL"}

HwdbValues == {<<"F", "o", "o", NUL>>, <<NUL>>}

\* A udev list has one entry per name; the empty list is the null pointer
UdevLists ==
    {l \in UNION {[1..k -> [name : HwdbKeys, value : HwdbValues]] :
                     k \in 0..MaxProps} :
        \A i \in 1..Len(l), j \in 1..Len(l) : l[i].name = l[j].name => i = j}

\* A device of the Generic variant: no initializer runs, the bits stay 0
NewGeneric ==
    \E par \in Nodes \cup {NULL}, path \in Paths :
        ldm_device_new_from_udev(par, GenericDevice(path), <<>>)

\* A device of a variant whose initializer sets type and attribute bits
NewTyped ==
    \E par \in Nodes \cup {NULL}, path \in Paths, dt \in DevTypes, at \in Attrs :
        ldm_device_new_from_udev(par, PciDevice(path, dt, at), <<>>)

\* A device from any udev device and hwdb list
NewFromUdev ==
    /\ ~crashed
    /\ Cardinality({n \in Nodes : alive[n] # "unborn"}) < MaxConstructed
    /\ \E par \in Nodes \cup {NULL}, device \in UdevDevices,
          properties \in UdevLists :
           ldm_device_new_from_udev(par, device, properties)

\* add_child as its documentation asks for it: the child was constructed
\* with this device as its parent
AddChildDocumented ==
    \E self \in Nodes, child \in Nodes :
        /\ parent[child] = self
        /\ ldm_device_add_child(self, child)

\* add_child with any two devices: the code checks nothing
AddChildAnyArgs ==
    \E self \in Nodes, child \in Nodes : ldm_device_add_child(self, child)

RemoveChildByPath ==
    \E self \in Nodes, path \in Paths : ldm_device_remove_child_by_path(self, path)

RemoveChild ==
    \E self \in Nodes, child \in Nodes : ldm_device_remove_child(self, child)

HolderRefSink == \E n \in Nodes : holder_ref_sink(n)

HolderUnref == \E n \in Nodes : holder_unref(n)

\* The tree as its owner uses it: generic devices, attached under the parent
\* they were constructed with, detached, and kept or dropped by a holder
Next ==
    \/ NewGeneric
    \/ AddChildDocumented
    \/ RemoveChildByPath
    \/ RemoveChild
    \/ HolderRefSink
    \/ HolderUnref

Spec == Init /\ [][Next]_vars

\* The calls with arbitrary live devices as arguments
NextAnyArgs ==
    \/ NewGeneric
    \/ AddChildAnyArgs
    \/ RemoveChildByPath
    \/ RemoveChild

SpecAnyArgs == Init /\ [][NextAnyArgs]_vars

\* Trees of typed devices, for the queries
NextQuery ==
    \/ NewTyped
    \/ AddChildDocumented

SpecQuery == Init /\ [][NextQuery]_vars

\* Single constructions, on every udev device and hwdb list
NextConstruct ==
    \/ NewFromUdev

SpecConstruct == Init /\ [][NextConstruct]_vars

-----------------------------------------------------------------------------
\* Every reference is accounted for: the count of a live device is the number
\* of table entries holding it, plus the holder's and the floating reference
RefCountSound ==
    \A n \in Nodes :
        /\ alive[n] = "live" =>
              ref_count[n] =
                  Cardinality({e \in UNION {{<<p, x>> : x \in kids[p]} : p \in Nodes} :
                                  e[2].value = n})
                  + (IF held[n] THEN 1 ELSE 0) + (IF floating[n] THEN 1 ELSE 0)
        /\ alive[n] # "live" => ref_count[n] = 0 /\ kids[n] = {}

-----------------------------------------------------------------------------
\* The devices reachable from the devices of S through the child tables
RECURSIVE Closure(_)
Closure(S) ==
    LET T == S \cup UNION {g_hash_table_get_values(kids[n]) : n \in S}
    IN  IF T = S THEN S ELSE Closure(T)

\* root and every device of its subtree
Subtree(root) == Closure({root})

\* The devices below n
Descendants(n) == Closure(g_hash_table_get_values(kids[n]))

\* The devices that hold c in their child table
Holders(c) == {p \in Nodes : c \in g_hash_table_get_values(kids[p])}

-----------------------------------------------------------------------------
C2_HasTypeIsSubtreeOr ==
    \A root \in Live, mask \in DevTypes :
        ldm_device_has_type(root, mask)
            <=> \E n \in Subtree(root) : BitAnd(devtype[n], mask) = mask

\* has_type is true of a root only because of a grandchild
C2_Witness ==
    \E root \in Live, mask \in DevTypes :
        /\ ldm_device_has_type(root, mask)
        /\ BitAnd(devtype[root], mask) # mask
        /\ \A c \in ldm_device_get_children(root) : BitAnd(devtype[c], mask) # mask
        /\ \E c \in ldm_device_get_children(root) :
               \E g \in ldm_device_get_children(c) : BitAnd(devtype[g], mask) = mask

\* C3: has_attribute(node, mask) is true exactly when the mask is contained
\* in the attribute bits of node or of some device of node's subtree.
C3_HasAttributeIsSubtreeOr ==
    \A node \in Live, mask \in Attrs :
        ldm_device_has_attribute(node, mask)
            <=> \E n \in Subtree(node) : BitAnd(attributes[n], mask) = mask

\* The owner's reference on old is dropped exactly once by the step: the
\* count goes down by one, and a count of one disposes the device
Released(old) ==
    IF ref_count[old] > 1
    THEN ref_count'[old] = ref_count[old] - 1 /\ alive'[old] = "live"
    ELSE ref_count'[old] = 0 /\ alive'[old] = "disposed"

\* C4: after add_child(parent, child), get_child_by_path(parent, path of
\* child) returns child; and the device a live parent returns for a path
\* changes only in an add_child on that parent with that path or in a remove
\* of that path on that parent.
C4_LookupReturnsAddedChild ==
    [][/\ \A self \in Nodes, child \in Nodes :
              (/\ last'.op = "add_child" /\ last'.self = self /\ last'.child = child
               /\ ldm_device_add_child(self, child))
                  => (ldm_device_get_child_by_path(self, ldm_device_get_path(child)))' = child
       /\ \A p \in Nodes, k \in Paths :
              (/\ alive[p] = "live" /\ alive'[p] = "live"
               /\ ldm_device_get_child_by_path(p, k) # NULL
               /\ (ldm_device_get_child_by_path(p, k))' # ldm_device_get_child_by_path(p, k))
                  => /\ last'.op \in {"add_child", "remove_child", "remove_child_by_path"}
                     /\ last'.self = p
                     /\ last'.path = k]_vars

\* A parent held two children, one was removed by its path, and the lookup
\* of the other path still returns the other child
C4_Witness ==
    /\ last.op = "remove_child_by_path"
    /\ last.old # NULL
    /\ alive[last.self] = "live"
    /\ \E k \in Paths \ {last.path} :
           /\ ldm_device_get_child_by_path(last.self, k) # NULL
           /\ ldm_device_get_parent(ldm_device_get_child_by_path(last.self, k)) = last.self

\* C5: add_child(parent, new) while parent holds another device old under
\* the path of new is no error: the entry of that path becomes new, old is
\* no child of parent any more, parent's reference on old is dropped exactly
\* once, and parent has as many children as before.
C5_CollisionReplacesAndReleases ==
    [][\A self \in Nodes, new \in Nodes :
          LET k == ldm_device_get_path(new)
              old == ldm_device_get_child_by_path(self, k)
          IN  (/\ last'.op = "add_child" /\ last'.self = self /\ last'.child = new
               /\ ldm_device_add_child(self, new)
               /\ old # NULL
               /\ old # new)
                  => /\ ~crashed'
                     /\ (ldm_device_get_child_by_path(self, k))' = new
                     /\ old \notin (ldm_device_get_children(self))'
                     /\ Released(old)
                     /\ Cardinality(kids'[self]) = Cardinality(kids[self])]_vars

\* add_child has just replaced another device under the same path
C5_Witness ==
    /\ last.op = "add_child"
    /\ last.old # NULL
    /\ last.old # last.child
    /\ ldm_device_get_child_by_path(last.self, last.path) = last.child

\* C6: remove_child_by_path(parent, path) with the path present removes that
\* entry and no other: the lookup of the path then finds nothing, parent's
\* reference on the removed child is dropped, every other entry stays.
C6_RemoveTakesOneEntry ==
    [][\A self \in Nodes, path \in Paths :
          LET old == ldm_device_get_child_by_path(self, path)
          IN  (/\ last'.op = "remove_child_by_path" /\ last'.self = self
               /\ last'.path = path
               /\ ldm_device_remove_child_by_path(self, path)
               /\ old # NULL)
                  => /\ (ldm_device_get_child_by_path(self, path))' = NULL
                     /\ Released(old)
                     /\ kids'[self] = kids[self] \ {[key |-> path, value |-> old]}
                     /\ \A k \in Paths \ {path} :
                            (ldm_device_get_child_by_path(self, k))'
                                = ldm_device_get_child_by_path(self, k)]_vars

\* remove_child_by_path has just removed a child and left its sibling
C6_Witness ==
    /\ last.op = "remove_child_by_path"
    /\ last.old # NULL
    /\ ldm_device_get_child_by_path(last.self, last.path) = NULL
    /\ kids[last.self] # {}

\* C7: remove_child_by_path(parent, path) with a path that is no key of
\* parent's children changes nothing: no child table, no parent link, no
\* bitmask, no reference count, and the call signals no error.
C7_RemoveAbsentIsNoOp ==
    [][\A self \in Nodes, path \in Paths :
          (/\ last'.op = "remove_child_by_path" /\ last'.self = self
           /\ last'.path = path
           /\ ldm_device_remove_child_by_path(self, path)
           /\ ldm_device_get_child_by_path(self, path) = NULL)
              => /\ UNCHANGED <<kids, parent, devtype, attributes, alive,
                               sysfs_path, ref_count, floating, held>>
                 /\ ~crashed']_vars

\* remove_child_by_path was just called with a path the parent does not
\* hold, on a parent that holds a child under another path
C7_Witness ==
    /\ last.op = "remove_child_by_path"
    /\ last.old = NULL
    /\ kids[last.self] # {}
    /\ ~crashed

\* C8: every child table holds at most one entry per path, every child is
\* stored under its own system path, and no two siblings share a path.
C8_SiblingPathsUnique ==
    \A p \in Nodes :
        /\ \A e \in kids[p] : ldm_device_get_path(e.value) = e.key
        /\ \A e1 \in kids[p], e2 \in kids[p] : e1.key = e2.key => e1 = e2
        /\ \A c1 \in ldm_device_get_children(p), c2 \in ldm_device_get_children(p) :
               ldm_device_get_path(c1) = ldm_device_get_path(c2) => c1 = c2

\* A parent holds two children after an add_child that hit a taken path
C8_Witness ==
    /\ last.op = "add_child"
    /\ last.old # NULL
    /\ last.old # last.child
    /\ Cardinality(ldm_device_get_children(last.self)) = 2

\* C9 as claimed: after any add_child and remove calls a device is in the
\* child table of at most one device.
C9_OneHolderAnyArgs ==
    \A c \in Nodes : Cardinality(Holders(c)) <= 1

\* C9 as amended: while every add_child(parent, child) call was given a child
\* constructed with parent as its parent, a device is in the child table of
\* at most one device.
C9_OneHolderWhenDocumented ==
    ~misuse => \A c \in Nodes : Cardinality(Holders(c)) <= 1

\* A child was added again to the parent that already held it, and is held
\* by that parent alone
C9_Witness ==
    /\ ~misuse
    /\ last.op = "add_child"
    /\ last.old = last.child
    /\ Holders(last.child) = {last.self}

\* C10 as claimed: after any add_child and remove calls no device is
\* reachable from itself through the child tables.
C10_NoCycleAnyArgs ==
    \A n \in Nodes : n \notin Descendants(n)

\* C10 as amended: while every add_child(parent, child) call was given a
\* child constructed with parent as its parent, no device is reachable from
\* itself through the child tables, and the has_type walk ends on every
\* live device.
C10_NoCycleWhenDocumented ==
    ~misuse =>
        /\ \A n \in Nodes : n \notin Descendants(n)
        /\ \A n \in Live : ldm_device_has_type(n, 1) \in BOOLEAN

\* A chain of three devices built by documented add_child calls
C10_Witness ==
    /\ ~misuse
    /\ last.op = "add_child"
    /\ \E a \in Live, b \in Live, c \in Live :
           /\ b \in ldm_device_get_children(a)
           /\ c \in ldm_device_get_children(b)
           /\ c \notin ldm_device_get_children(a)

\* The entries of the child tables of the devices of S that hold c
EntriesHolding(S, c) ==
    {e \in UNION {{<<p, x>> : x \in kids[p]} : p \in S} : e[2].value = c}

\* S and every device all of whose references are entries of the child
\* tables of devices of S, and so on downwards
RECURSIVE Doomed(_)
Doomed(S) ==
    LET T == S \cup {c \in Live : /\ EntriesHolding(S, c) # {}
                                  /\ ref_count[c] = Cardinality(EntriesHolding(S, c))}
    IN  IF T = S THEN S ELSE Doomed(T)

\* C11: when a call destroys a device n (its last owner drops it), every
\* device of n's subtree that has no owner outside the destroyed devices is
\* destroyed by the same call, no destroyed device has children left, and a
\* child that has another owner lives on with the destroyed devices'
\* references taken off its count.
C11_DestroyReleasesSubtree ==
    [][freed' # {} =>
          /\ \A n \in freed' : Doomed({n}) \subseteq freed'
          /\ \A d \in freed' : (ldm_device_get_children(d))' = {}
          /\ \A d \in freed' : \A c \in Descendants(d) \ freed' :
                 /\ alive'[c] = "live"
                 /\ ref_count'[c] =
                        ref_count[c] - Cardinality(EntriesHolding(freed', c))
                 /\ Holders(c)' \cap freed' = {}]_vars

\* The holder of a root dropped it, and the call destroyed the root, its
\* child and the child of that child
C11_Witness ==
    /\ last.op = "unref"
    /\ last.self \in freed
    /\ \E c \in freed, g \in freed :
           /\ ldm_device_get_parent(c) = last.self
           /\ ldm_device_get_parent(g) = c

-----------------------------------------------------------------------------
\* The udev list has an entry of that name
HasKey(properties, k) ==
    \E i \in 1..Len(properties) : properties[i].name = k

\* ... and the value of that entry
ValueOf(properties, k) ==
    properties[CHOOSE i \in 1..Len(properties) : properties[i].name = k].value

\* The number a sequence of hexadecimal digits writes
RECURSIVE HexValue(_)
HexValue(digits) ==
    IF digits = <<>> THEN 0
    ELSE LET c == digits[Len(digits)]
             d == CHOOSE v \in 0..15 : HexDigits[v + 1] = c
         IN  d + 16 * HexValue(SubSeq(digits, 1, Len(digits) - 1))

\* str is "Device " followed by id in lowercase hexadecimal, with no digit
\* more than the value needs
IsDeviceHex(str, id) ==
    /\ Len(str) >= 9
    /\ SubSeq(str, 1, 7) = <<"D", "e", "v", "i", "c", "e", " ">>
    /\ str[Len(str)] = NUL
    /\ LET digits == SubSeq(str, 8, Len(str) - 1)
       IN  /\ \A i \in 1..Len(digits) :
                  \E v \in 0..15 : HexDigits[v + 1] = digits[i]
           /\ Len(digits) > 1 => digits[1] # "0"
           /\ HexValue(digits) = id

\* The GTypes whose initializer the constructor runs
Initialized ==
    {"LDM_TYPE_PCI_DEVICE", "LDM_TYPE_USB_DEVICE", "LDM_TYPE_DMI_DEVICE",
     "LDM_TYPE_BLUETOOTH_DEVICE"}

\* C12: the name of a constructed device is the value of the hwdb key
\* ID_MODEL_FROM_DATABASE if the list has it, else the value of ID_MODEL if
\* the list has it, else (also without a list) "Device " and the product id
\* in lowercase hexadecimal without padding, the product id being the one
\* the variant initializer left; so no constructed device is without name.
C12_NameFromHwdbOrProductId ==
    /\ \A n \in Live : ldm_device_get_name(n) # NullStr
    /\ (last.op = "new" /\ ~crashed) =>
          LET self == last.self
              properties == given.properties
          IN  /\ special_type[self] \in Initialized
                     => product_id[self] = given.device.product_id
              /\ IF HasKey(properties, "ID_MODEL_FROM_DATABASE")
                 THEN ldm_device_get_name(self)
                          = ValueOf(properties, "ID_MODEL_FROM_DATABASE")
                 ELSE IF HasKey(properties, "ID_MODEL")
                 THEN ldm_device_get_name(self) = ValueOf(properties, "ID_MODEL")
                 ELSE IsDeviceHex(ldm_device_get_name(self), product_id[self])

\* A device with a hwdb list that has neither model key and with the
\* product id 0x10 was constructed: it is called "Device 10"
C12_Witness ==
    /\ last.op = "new"
    /\ ~crashed
    /\ given.properties # <<>>
    /\ ~HasKey(given.properties, "ID_MODEL_FROM_DATABASE")
    /\ ~HasKey(given.properties, "ID_MODEL")
    /\ given.device.product_id = 16
    /\ ldm_device_get_name(last.self)
           = <<"D", "e", "v", "i", "c", "e", " ", "1", "0", NUL>>

\* C13: the vendor of a constructed device is the value of the hwdb key
\* ID_VENDOR_FROM_DATABASE if the list has it, else the value of ID_VENDOR
\* if the list has it, else unset (also without a list).
C13_VendorFromHwdb ==
    (last.op = "new" /\ ~crashed) =>
        LET self == last.self
            properties == given.properties
        IN  IF HasKey(properties, "ID_VENDOR_FROM_DATABASE")
            THEN ldm_device_get_vendor(self)
                     = ValueOf(properties, "ID_VENDOR_FROM_DATABASE")
            ELSE IF HasKey(properties, "ID_VENDOR")
            THEN ldm_device_get_vendor(self) = ValueOf(properties, "ID_VENDOR")
            ELSE ldm_device_get_vendor(self) = NullStr

\* A device was constructed from a list with both vendor keys and different
\* values: its vendor is the database's
C13_Witness ==
    /\ last.op = "new"
    /\ ~crashed
    /\ HasKey(given.properties, "ID_VENDOR_FROM_DATABASE")
    /\ HasKey(given.properties, "ID_VENDOR")
    /\ ValueOf(given.properties, "ID_VENDOR_FROM_DATABASE")
           # ValueOf(given.properties, "ID_VENDOR")
    /\ ldm_device_get_vendor(last.self)
           = ValueOf(given.properties, "ID_VENDOR_FROM_DATABASE")

\* The variant the specification names for a subsystem
VariantOf(subsystem) ==
    CASE subsystem = <<"u", "s", "b", NUL>> -> "LDM_TYPE_USB_DEVICE"
      [] subsystem = <<"p", "c", "i", NUL>> -> "LDM_TYPE_PCI_DEVICE"
      [] subsystem = <<"d", "m", "i", NUL>> -> "LDM_TYPE_DMI_DEVICE"
      [] subsystem = <<"h", "i", "d", NUL>> -> "LDM_TYPE_HID_DEVICE"
      [] subsystem = <<"b", "l", "u", "e", "t", "o", "o", "t", "h", NUL>>
             -> "LDM_TYPE_BLUETOOTH_DEVICE"
      [] subsystem = <<"i", "e", "e", "e", "8", "0", "2", "1", "1", NUL>>
             -> "LDM_TYPE_WIFI_DEVICE"
      [] OTHER -> "LDM_TYPE_DEVICE"

\* C14: the constructor returns, for every subsystem, the absent one too, a
\* device of the variant of the mapping usb, pci, dmi, hid, bluetooth,
\* ieee80211, anything else Generic; and a Generic device went through no
\* initializer and has the device type ANY.
C14_VariantBySubsystem ==
    last.op = "new" =>
        /\ ~crashed
        /\ special_type[last.self] = VariantOf(given.device.subsystem)
        /\ special_type[last.self] = "LDM_TYPE_DEVICE"
               => /\ ldm_device_get_device_type(last.self) = 0
                  /\ ldm_device_get_product_id(last.self) = 0

-----------------------------------------------------------------------------
\* The program's state, without the records of the calls
state == <<alive, parent, sysfs_path, devtype, attributes, kids, ref_count,
           floating, held, special_type, product_id, name, vendor, modalias,
           hwdb_info, crashed>>

\* C15: add_child(parent, child) called again right after
\* add_child(parent, child) leaves the child tables, the reference counts
\* and everything else as the first call left them, and destroys nothing;
\* so does remove_child_by_path(parent, path) called again right after
\* remove_child_by_path(parent, path).
C15_SecondCallChangesNothing ==
    [][/\ \A self \in Nodes, child \in Nodes :
              (/\ last.op = "add_child" /\ last.self = self /\ last.child = child
               /\ last'.op = "add_child" /\ last'.self = self
               /\ last'.child = child
               /\ ldm_device_add_child(self, child))
                  => /\ state' = state
                     /\ freed' = {}
                     /\ (ldm_device_get_child_by_path(self, ldm_device_get_path(child)))'
                            = child
       /\ \A self \in Nodes, path \in Paths :
              (/\ last.op = "remove_child_by_path" /\ last.self = self
               /\ last.path = path
               /\ last'.op = "remove_child_by_path" /\ last'.self = self
               /\ last'.path = path
               /\ ldm_device_remove_child_by_path(self, path))
                  => /\ state' = state
                     /\ freed' = {}]_vars

\* add_child was called with a child the parent held already, and the
\* child, owned by the parent's table alone, is alive with its one reference
C15_Witness ==
    /\ last.op = "add_child"
    /\ last.old = last.child
    /\ alive[last.child] = "live"
    /\ ref_count[last.child] = 1
    /\ ~held[last.child]
    /\ ldm_device_get_child_by_path(last.self, last.path) = last.child

\* C16: remove_child_by_path(parent, path) with a child under that path
\* takes the child out of parent's table and unsets the parent of the child:
\* get_parent of the child, if it lives on, returns no parent.
C16_RemoveUnsetsParent ==
    [][\A self \in Nodes, path \in Paths, old \in Nodes :
          (/\ last'.op = "remove_child_by_path" /\ last'.self = self
           /\ last'.path = path
           /\ ldm_device_remove_child_by_path(self, path)
           /\ ldm_device_get_child_by_path(self, path) = old)
              => /\ old \notin (ldm_device_get_children(self))'
                 /\ alive'[old] = "live"
                        => (ldm_device_get_parent(old))' = NULL]_vars

\* C17 as claimed: in every state reached by add_child and remove calls,
\* every child in the table of a device p has p as its parent.
C17_ChildrenUnderOwnParentAnyArgs ==
    \A p \in Nodes : \A c \in ldm_device_get_children(p) :
        ldm_device_get_parent(c) = p

\* C17 as amended: while every add_child(parent, child) call was given a
\* child constructed with parent as its parent, every child in the table of
\* a device p has p as its parent.
C17_ChildrenUnderOwnParentWhenDocumented ==
    ~misuse =>
        \A p \in Nodes : \A c \in ldm_device_get_children(p) :
            ldm_device_get_parent(c) = p

\* After documented adds and a remove that took a child out, a device still
\* holds a child, which has it as parent
C17_Witness ==
    /\ ~misuse
    /\ last.op \in {"remove_child", "remove_child_by_path"}
    /\ last.old # NULL
    /\ \E p \in Live : \E c \in ldm_device_get_children(p) :
           ldm_device_get_parent(c) = p

\* C18: with the mask 0, has_type and has_attribute are true of every
\* device, whatever its bits and its children.
C18_ZeroMaskMatchesAll ==
    \A node \in Live :
        /\ ldm_device_has_type(node, 0)
        /\ ldm_device_has_attribute(node, 0)

\* A device with type bits, attribute bits and a child with bits, of which
\* both queries with the mask 0 are true
C18_Witness ==
    \E node \in Live :
        /\ ldm_device_get_device_type(node) # 0
        /\ ldm_device_get_attributes(node) # 0
        /\ \E c \in ldm_device_get_children(node) :
               ldm_device_get_device_type(c) # 0
        /\ ldm_device_has_type(node, 0)
        /\ ldm_device_has_attribute(node, 0)

\* C19: remove_child(parent, child) does what remove_child_by_path does with
\* the path of child: the entry parent holds under that path goes, with the
\* table's reference on the device it held, whether or not that device is
\* child; child itself is not looked at, and without such an entry nothing
\* changes.
C19_RemoveChildIsRemoveByItsPath ==
    [][\A self \in Nodes, child \in Nodes, path \in Paths,
         old \in Nodes \cup {NULL} :
          (/\ last'.op = "remove_child" /\ last'.self = self
           /\ last'.child = child
           /\ ldm_device_remove_child(self, child)
           /\ ldm_device_get_path(child) = path
           /\ ldm_device_get_child_by_path(self, path) = old)
              => IF old = NULL
                 THEN state' = state /\ freed' = {}
                 ELSE /\ kids'[self] = kids[self] \ {[key |-> path, value |-> old]}
                      /\ Released(old)
                      /\ \A k \in Paths \ {path} :
                             (ldm_device_get_child_by_path(self, k))'
                                 = ldm_device_get_child_by_path(self, k)
                      /\ child \notin Subtree(old)
                             => /\ ref_count'[child] = ref_count[child]
                                /\ alive'[child] = "live"]_vars

\* remove_child was given a device that is no child of the parent and has
\* the path of one: that child was removed
C19_Witness ==
    /\ last.op = "remove_child"
    /\ last.old # NULL
    /\ last.old # last.child
    /\ alive[last.child] = "live"
    /\ ldm_device_get_child_by_path(last.self, last.path) = NULL

=============================================================================
